---- MODULE Spec2Model ----
(***************************************************************************)
(* SmartDeFi asset-backing precompile (address 0x...0100) and the          *)
(* backingpool store/arithmetic it drives, over the StateDB interface.     *)
(*                                                                         *)
(* Scaling.  TLC integers are 32-bit, so the 256-bit storage word, the     *)
(* 1e10 slot modulus and the 1e18 price scale are replaced by the small    *)
(* stand-ins WordMod, SlotMod and Scale.  Addresses are byte sequences: an *)
(* externally owned account is a one-element sequence, and Keccak256 is    *)
(* taken collision-free, so a derived token address is identified with the *)
(* byte string that was hashed.                                            *)
(***************************************************************************)
EXTENDS Integers, Sequences, FiniteSets, TLC

VARIABLES
    state,      \* mockStateDB.state: written (account, slot) -> 32-byte word
    balances,   \* mockStateDB.balances: account -> native coin (big.Int)
    nonces,     \* mockStateDB.nonces
    codeSizes,  \* mockStateDB.codeSizes
    last,       \* the last call to Run: its input and what it returned
    created,    \* the token addresses returned by a successful create so far
    steps       \* number of steps taken so far

vars == <<state, balances, nonces, codeSizes, last, created, steps>>

-----------------------------------------------------------------------------
(* Bounds *)

WordMod == 1024     \* stand-in for 2^256, the range of a common.Hash word
SlotMod == 100      \* stand-in for the 1e10 modulus of the slot bases
Scale == 1000       \* stand-in for the 1e18 floor-price precision
MaxSteps == 3       \* steps per behaviour
MaxNonce == 1       \* highest account nonce the host sets
AddrMod == 512      \* stand-in for 2^160, the range of a common.Address

(* Program constants *)

SlotTotalBacking == 0
SlotTotalSupply == 1
SlotBurnedSupply == 2
SlotBackingAsset == 3
MaxFeeTotal == 500
NumFees == 12

-----------------------------------------------------------------------------
(* Accounts *)

ZeroAddress == <<0>>                \* common.Address{}
PrecompileAddressBytes == <<256>>   \* 0x...0100
Alice == <<17>>
Bob == <<34>>
NonExistentToken == <<153>>         \* an address nothing is ever written to

Creators == {ZeroAddress, Alice}     \* callers of createAssetBackedToken
Burners == {Alice, Bob}             \* callers of burnAndRecover
Callers == Creators \cup Burners
Accounts == Callers \cup {PrecompileAddressBytes}

SmartCoin == 0      \* the all-zero backing asset, as the integer of its bytes
OtherAsset == 273   \* 0x...0111, some non-zero backing asset

-----------------------------------------------------------------------------
(* big.Int and common.Hash helpers *)

Abs(x) == IF x < 0 THEN -x ELSE x

\* big.Int.Div: Euclidean division, y # 0
Div(x, y) == IF y > 0 THEN x \div y ELSE -(x \div (-y))

\* big.Int.Bytes(): big-endian magnitude without leading zeros
RECURSIVE BigBytes(_)
BigBytes(n) == IF n = 0 THEN <<>> ELSE Append(BigBytes(n \div 256), n % 256)

\* common.BigToHash: the magnitude's bytes, cropped from the left to one word
BigToHash(x) == Abs(x) % WordMod

\* math.U256Bytes as used by the ABI encoder: two's complement in one word
U256(x) == x % WordMod

RECURSIVE HashBig(_)
\* hash.Big() of a Keccak256 digest: a fixed mixing function of the input bytes
HashBig(bytes) ==
    IF bytes = <<>> THEN 7
    ELSE LET t == HashBig(Tail(bytes)) IN ((t + Head(bytes)) * (t + 47) + 1) % 1009

TagBackingPool == <<66>>    \* "SmartDeFi-BackingPool"
TagFees == <<70>>           \* "SmartDeFi-Fees"

-----------------------------------------------------------------------------
(* StateDB *)

GetState(st, addr, slot) ==
    IF <<addr, slot>> \in DOMAIN st THEN st[<<addr, slot>>] ELSE 0

SetState(st, addr, slot, value) ==
    [k \in DOMAIN st \cup {<<addr, slot>>} |->
        IF k = <<addr, slot>> THEN value ELSE st[k]]

GetBalance(bal, addr) == bal[addr]

AddBalance(bal, addr, amount) == [bal EXCEPT ![addr] = @ + amount]

SubBalance(bal, addr, amount) == [bal EXCEPT ![addr] = @ - amount]

-----------------------------------------------------------------------------
(* backingpool *)

getSlotBase(tokenAddress) == HashBig(tokenAddress \o TagBackingPool) % SlotMod

\* GetBackingPool signalling absence when the four slots read zero
GetBackingPoolNilWhenEmpty(st, tokenAddress) ==
    LET slotBase == getSlotBase(tokenAddress) IN
    IF \A slot \in {SlotTotalBacking, SlotTotalSupply, SlotBurnedSupply, SlotBackingAsset} :
          GetState(st, tokenAddress, slotBase + slot) = 0
    THEN [nil |-> TRUE]
    ELSE [TokenAddress |-> tokenAddress,
          BackingAsset |-> GetState(st, tokenAddress, slotBase + SlotBackingAsset) % AddrMod,
          TotalBacking |-> GetState(st, tokenAddress, slotBase + SlotTotalBacking),
          TotalSupply  |-> GetState(st, tokenAddress, slotBase + SlotTotalSupply),
          BurnedSupply |-> GetState(st, tokenAddress, slotBase + SlotBurnedSupply)]

GetBackingPool(st, tokenAddress) ==
    LET slotBase == getSlotBase(tokenAddress) IN
    [TokenAddress |-> tokenAddress,
     BackingAsset |-> GetState(st, tokenAddress, slotBase + SlotBackingAsset) % AddrMod,
     TotalBacking |-> GetState(st, tokenAddress, slotBase + SlotTotalBacking),
     TotalSupply  |-> GetState(st, tokenAddress, slotBase + SlotTotalSupply),
     BurnedSupply |-> GetState(st, tokenAddress, slotBase + SlotBurnedSupply)]

\* SetBackingPool that also notes the backing in the custodial account's storage
SetBackingPoolNotesCustody(st, pool) ==
    LET slotBase == getSlotBase(pool.TokenAddress)
        s1 == SetState(st, pool.TokenAddress, slotBase + SlotTotalBacking,
                       BigToHash(pool.TotalBacking))
        s2 == SetState(s1, pool.TokenAddress, slotBase + SlotTotalSupply,
                       BigToHash(pool.TotalSupply))
        s3 == SetState(s2, pool.TokenAddress, slotBase + SlotBurnedSupply,
                       BigToHash(pool.BurnedSupply))
        s4 == SetState(s3, pool.TokenAddress, slotBase + SlotBackingAsset,
                       BigToHash(pool.BackingAsset))
    IN  SetState(s4, PrecompileAddressBytes, slotBase, BigToHash(pool.TotalBacking))

\* SetBackingPool writing the backing asset into the burned-supply slot
SetBackingPoolSharedSlot(st, pool) ==
    LET slotBase == getSlotBase(pool.TokenAddress)
        s1 == SetState(st, pool.TokenAddress, slotBase + SlotTotalBacking,
                       BigToHash(pool.TotalBacking))
        s2 == SetState(s1, pool.TokenAddress, slotBase + SlotTotalSupply,
                       BigToHash(pool.TotalSupply))
        s3 == SetState(s2, pool.TokenAddress, slotBase + SlotBurnedSupply,
                       BigToHash(pool.BurnedSupply))
    IN  SetState(s3, pool.TokenAddress, slotBase + SlotBurnedSupply,
                 BigToHash(pool.BackingAsset))

SetBackingPool(st, pool) ==
    LET slotBase == getSlotBase(pool.TokenAddress)
        s1 == SetState(st, pool.TokenAddress, slotBase + SlotTotalBacking,
                       BigToHash(pool.TotalBacking))
        s2 == SetState(s1, pool.TokenAddress, slotBase + SlotTotalSupply,
                       BigToHash(pool.TotalSupply))
        s3 == SetState(s2, pool.TokenAddress, slotBase + SlotBurnedSupply,
                       BigToHash(pool.BurnedSupply))
    IN  SetState(s3, pool.TokenAddress, slotBase + SlotBackingAsset,
                 BigToHash(pool.BackingAsset))

\* CalculateFloorPrice dividing by 1 where the circulating supply is 0
CalculateFloorPriceNoZeroGuard(p) ==
    IF p.TotalSupply = 0 THEN 0
    ELSE LET circulatingSupply == p.TotalSupply - p.BurnedSupply IN
         Div(p.TotalBacking * Scale, IF circulatingSupply = 0 THEN 1 ELSE circulatingSupply)

\* CalculateFloorPrice with the burned supply added to the divisor
CalculateFloorPriceAddsBurned(p) ==
    IF p.TotalSupply = 0 THEN 0
    ELSE LET circulatingSupply == p.TotalSupply - p.BurnedSupply IN
         IF circulatingSupply = 0 THEN 0
         ELSE Div(p.TotalBacking * Scale, p.TotalSupply + p.BurnedSupply)

\* CalculateFloorPrice rounding the quotient up
CalculateFloorPriceRoundsUp(p) ==
    IF p.TotalSupply = 0 THEN 0
    ELSE LET circulatingSupply == p.TotalSupply - p.BurnedSupply IN
         IF circulatingSupply = 0 THEN 0
         ELSE Div(p.TotalBacking * Scale + Abs(circulatingSupply) - 1, circulatingSupply)

\* CalculateBackingForAmount with the product kept in one storage word
CalculateBackingForAmountWrapped(p, amount) ==
    IF p.TotalSupply = 0 THEN 0
    ELSE LET circulatingSupply == p.TotalSupply - p.BurnedSupply IN
         IF circulatingSupply = 0 THEN 0
         ELSE Div((amount * p.TotalBacking) % WordMod, circulatingSupply)

\* CalculateBackingForAmount with one unit of dust added to the quotient
CalculateBackingForAmountPlusDust(p, amount) ==
    IF p.TotalSupply = 0 THEN 0
    ELSE LET circulatingSupply == p.TotalSupply - p.BurnedSupply IN
         IF circulatingSupply = 0 THEN 0
         ELSE Div(amount * p.TotalBacking, circulatingSupply) + 1

\* CalculateBackingForAmount that pays at least one unit for a positive amount
CalculateBackingForAmountAtLeastOne(p, amount) ==
    IF p.TotalSupply = 0 THEN 0
    ELSE LET circulatingSupply == p.TotalSupply - p.BurnedSupply IN
         IF circulatingSupply = 0 THEN 0
         ELSE LET backing == Div(amount * p.TotalBacking, circulatingSupply)
              IN  IF amount > 0 /\ backing < 1 THEN 1 ELSE backing

CalculateFloorPrice(p) ==
    IF p.TotalSupply = 0 THEN 0
    ELSE LET circulatingSupply == p.TotalSupply - p.BurnedSupply IN
         IF circulatingSupply = 0 THEN 0
         ELSE Div(p.TotalBacking * Scale, circulatingSupply)

CalculateBackingForAmount(p, amount) ==
    IF p.TotalSupply = 0 THEN 0
    ELSE LET circulatingSupply == p.TotalSupply - p.BurnedSupply IN
         IF circulatingSupply = 0 THEN 0
         ELSE Div(amount * p.TotalBacking, circulatingSupply)

\* BurnTokens that burns at least one token
BurnTokensAtLeastOne(p, amount) ==
    [p EXCEPT !.BurnedSupply = @ + (IF amount = 0 THEN 1 ELSE amount)]

BurnTokens(p, amount) == [p EXCEPT !.BurnedSupply = @ + amount]

-----------------------------------------------------------------------------
(* assetbacking: inputs *)

Fees12 == 0..(NumFees - 1)

ZeroFees == [i \in Fees12 |-> 0]
CapFees == [i \in Fees12 |-> IF i = 0 THEN 300 ELSE IF i = 5 THEN 200
                             ELSE IF i = 6 THEN 500 ELSE 0]
OverBuyFees == [i \in Fees12 |-> IF i = 0 THEN 500 ELSE IF i = 5 THEN 1 ELSE 0]
OverSellFees == [i \in Fees12 |-> IF i = 6 THEN 1 ELSE IF i = 11 THEN 500 ELSE 0]

Names == {<<1>>}
Symbols == {<<>>, <<1>>}
Supplies == {0, 2, 258}
Backings == {0, 2}
FeeChoices == {<<ZeroFees, FALSE>>, <<CapFees, TRUE>>,
               <<OverBuyFees, FALSE>>, <<OverSellFees, FALSE>>}
Amounts == {0, 1, 3, WordMod - 1}

\* a payload the ABI decoder refuses
MalformedCreate ==
    [wellFormed |-> FALSE, Name |-> <<>>, Symbol |-> <<>>, TotalSupply |-> 0,
     BackingAsset |-> SmartCoin, InitialBacking |-> 0, Fees |-> ZeroFees,
     OnlySB |-> FALSE]

Config(n, s, ts, ba, ib, f, sb) ==
    [wellFormed |-> TRUE, Name |-> n, Symbol |-> s, TotalSupply |-> ts,
     BackingAsset |-> ba, InitialBacking |-> ib, Fees |-> f, OnlySB |-> sb]

\* every name, symbol, supply, asset and backing with no fees; every fee choice
\* on one of them; and a payload that does not decode
CreateInputs ==
    {Config(n, s, ts, ba, ib, ZeroFees, FALSE) :
        n \in Names, s \in Symbols, ts \in Supplies,
        ba \in {SmartCoin, OtherAsset}, ib \in Backings}
    \cup {Config(<<1>>, <<>>, 2, ba, 2, f[1], f[2]) :
        ba \in {SmartCoin, OtherAsset}, f \in FeeChoices}
    \cup {MalformedCreate}

-----------------------------------------------------------------------------
(* assetbacking: helpers *)

\* the bytes hashed into configHash; the nonce is a fixed-width word
configHash(caller, nonce, config) ==
    caller \o <<nonce>> \o config.Name \o config.Symbol \o BigBytes(config.TotalSupply)

\* a token address that also depends on the initial backing
tokenAddressWithBacking(caller, nonce, config) ==
    configHash(caller, nonce, config) \o <<0>> \o BigBytes(config.InitialBacking)

\* common.BytesToAddress(configHash[:20]) with a collision-free Keccak256
tokenAddressOf(caller, nonce, config) == configHash(caller, nonce, config)

RECURSIVE SumFees(_, _, _)
SumFees(fees, from, n) ==
    IF n = 0 THEN 0 ELSE fees[from] + SumFees(fees, from + 1, n - 1)

\* validateTokenConfig rejecting a side that sums to the threshold itself
validateTokenConfigBelowCap(config) ==
    LET totalBuyFees == SumFees(config.Fees, 0, 6)
        totalSellFees == SumFees(config.Fees, 6, 6)
    IN  IF config.TotalSupply <= 0 THEN FALSE
        ELSE IF totalBuyFees >= MaxFeeTotal \/ totalSellFees >= MaxFeeTotal THEN FALSE
        ELSE IF config.InitialBacking < 0 THEN FALSE
        ELSE TRUE

\* TRUE when validateTokenConfig returns nil
validateTokenConfig(config) ==
    LET totalBuyFees == SumFees(config.Fees, 0, 6)
        totalSellFees == SumFees(config.Fees, 6, 6)
    IN  IF config.TotalSupply <= 0 THEN FALSE
        ELSE IF totalBuyFees > MaxFeeTotal \/ totalSellFees > MaxFeeTotal THEN FALSE
        ELSE IF config.InitialBacking < 0 THEN FALSE
        ELSE TRUE

getFeeSlotBase(tokenAddress) == HashBig(tokenAddress \o TagFees) % SlotMod

RECURSIVE StoreFees(_, _, _, _, _)
StoreFees(st, tokenAddress, slotBase, fees, i) ==
    IF i = NumFees THEN st
    ELSE StoreFees(SetState(st, tokenAddress, slotBase + i, BigToHash(fees[i])),
                   tokenAddress, slotBase, fees, i + 1)

storeFeeStructure(st, tokenAddress, fees, onlySB) ==
    LET slotBase == getFeeSlotBase(tokenAddress)
        onlySBValue == IF onlySB THEN 1 ELSE 0
    IN  SetState(StoreFees(st, tokenAddress, slotBase, fees, 0),
                 tokenAddress, slotBase + NumFees, BigToHash(onlySBValue))

-----------------------------------------------------------------------------
(* assetbacking: the four operations behind Run *)

MalformedCall == [wellFormed |-> FALSE, token |-> NonExistentToken, amount |-> 0]

\* every token address a create of this model can derive
TokenAddresses ==
    {tokenAddressOf(c, n, cfg) : c \in Creators \ {ZeroAddress}, n \in 0..MaxNonce,
                                 cfg \in CreateInputs \ {MalformedCreate}}

\* the accounts whose storage has been written
Written(st) == {k[1] : k \in DOMAIN st}

\* calls on every written token and on an address nothing was written to
CallInputs(st) ==
    {[wellFormed |-> TRUE, token |-> t, amount |-> a] :
        t \in Written(st) \cup {NonExistentToken}, a \in Amounts}
    \cup {MalformedCall}

\* getFloorPrice takes no amount
FloorInputs(st) == {i \in CallInputs(st) : i.amount = 0}

NoConfig == MalformedCreate

\* what Run was given and what it returned: ok is err = nil, ret the encoded
\* uint256 result, token the address a create returned or a call named
Result(op, caller, ok, ret, token, amount, config) ==
    [op |-> op, caller |-> caller, ok |-> ok, ret |-> ret, token |-> token,
     amount |-> amount, config |-> config, step |-> steps + 1]

\* createReverts without the backing-asset check
createRevertsAnyAsset(input, caller, bal, ns, cs) ==
    IF caller = ZeroAddress THEN TRUE
    ELSE IF ~input.wellFormed THEN TRUE
    ELSE IF ~validateTokenConfig(input) THEN TRUE
    ELSE IF input.InitialBacking > 0 /\ GetBalance(bal, caller) < input.InitialBacking
         THEN TRUE
    ELSE cs[tokenAddressOf(caller, ns[caller], input)] > 0

\* createAssetBackedToken: the checks that return ErrExecutionReverted
createReverts(input, caller, bal, ns, cs) ==
    IF caller = ZeroAddress THEN TRUE
    ELSE IF ~input.wellFormed THEN TRUE
    ELSE IF ~validateTokenConfig(input) THEN TRUE
    ELSE IF input.BackingAsset # SmartCoin THEN TRUE
    ELSE IF input.InitialBacking > 0 /\ GetBalance(bal, caller) < input.InitialBacking
         THEN TRUE
    ELSE cs[tokenAddressOf(caller, ns[caller], input)] > 0

\* createAssetBackedToken: the pool it constructs
newPool(tokenAddress, config) ==
    [TokenAddress |-> tokenAddress,
     BackingAsset |-> SmartCoin,
     TotalBacking |-> config.InitialBacking,
     TotalSupply  |-> config.TotalSupply,
     BurnedSupply |-> 0]

\* createAssetBackedToken: storage after SetBackingPool and storeFeeStructure
createStorage(st, tokenAddress, config) ==
    storeFeeStructure(SetBackingPool(st, newPool(tokenAddress, config)),
                      tokenAddress, config.Fees, config.OnlySB)

\* createTransfer that credits the custodial balance without debiting the caller
createTransferNoDebit(bal, caller, config) ==
    IF config.InitialBacking > 0
    THEN AddBalance(bal, PrecompileAddressBytes, config.InitialBacking)
    ELSE bal

\* createAssetBackedToken: locking the initial backing
createTransfer(bal, caller, config) ==
    IF config.InitialBacking > 0
    THEN SubBalance(AddBalance(bal, PrecompileAddressBytes, config.InitialBacking),
                    caller, config.InitialBacking)
    ELSE bal

\* createAssetBackedToken with the rejecting checks placed after the writes
createAssetBackedTokenLateCheck(input, caller) ==
    /\ steps < MaxSteps
    /\ steps' = steps + 1
    /\ UNCHANGED <<nonces, codeSizes>>
    /\ IF caller = ZeroAddress \/ ~input.wellFormed
       THEN /\ UNCHANGED <<state, balances, created>>
            /\ last' = Result("create", caller, FALSE, 0, NonExistentToken, 0, input)
       ELSE LET tokenAddress == tokenAddressOf(caller, nonces[caller], input) IN
            /\ state' = createStorage(state, tokenAddress, input)
            /\ balances' = createTransfer(balances, caller, input)
            /\ IF createReverts(input, caller, balances, nonces, codeSizes)
               THEN /\ UNCHANGED created
                    /\ last' = Result("create", caller, FALSE, 0, NonExistentToken, 0, input)
               ELSE /\ created' = created \cup {tokenAddress}
                    /\ last' = Result("create", caller, TRUE, 0, tokenAddress, 0, input)

createAssetBackedToken(input, caller) ==
    /\ steps < MaxSteps
    /\ steps' = steps + 1
    /\ UNCHANGED <<nonces, codeSizes>>
    /\ IF createReverts(input, caller, balances, nonces, codeSizes)
       THEN /\ UNCHANGED <<state, balances, created>>
            /\ last' = Result("create", caller, FALSE, 0, NonExistentToken, 0, input)
       ELSE LET tokenAddress == tokenAddressOf(caller, nonces[caller], input) IN
            /\ state' = createStorage(state, tokenAddress, input)
            /\ balances' = createTransfer(balances, caller, input)
            /\ created' = created \cup {tokenAddress}
            /\ last' = Result("create", caller, TRUE, 0, tokenAddress, 0, input)

getBacking(input) ==
    /\ steps < MaxSteps
    /\ steps' = steps + 1
    /\ UNCHANGED <<state, balances, nonces, codeSizes, created>>
    /\ IF ~input.wellFormed
       THEN last' = Result("getBacking", ZeroAddress, FALSE, 0, input.token, input.amount, NoConfig)
       ELSE LET pool == GetBackingPool(state, input.token)
                backingAmount == CalculateBackingForAmount(pool, input.amount)
            IN  last' = Result("getBacking", ZeroAddress, TRUE, U256(backingAmount),
                               input.token, input.amount, NoConfig)

\* burnAndRecover keeping one unit of the backing out of the pool it writes back
burnedPoolTakesDust(pool, amount) ==
    LET recoveredAmount == CalculateBackingForAmount(pool, amount)
        burned == BurnTokens(pool, amount)
    IN  [burned EXCEPT !.TotalBacking = @ - recoveredAmount - 1]

\* burnAndRecover: the pool it writes back
burnedPool(pool, amount) ==
    LET recoveredAmount == CalculateBackingForAmount(pool, amount)
        burned == BurnTokens(pool, amount)
    IN  [burned EXCEPT !.TotalBacking = @ - recoveredAmount]

\* burnAndRecover paying the caller without debiting the custodial balance
burnTransferNoDebit(bal, caller, recoveredAmount) ==
    IF recoveredAmount > 0
    THEN AddBalance(bal, caller, recoveredAmount)
    ELSE bal

\* burnAndRecover: paying the recovered backing out
burnTransfer(bal, caller, recoveredAmount) ==
    IF recoveredAmount > 0
    THEN AddBalance(SubBalance(bal, PrecompileAddressBytes, recoveredAmount),
                    caller, recoveredAmount)
    ELSE bal

burnAndRecover(input, caller) ==
    /\ steps < MaxSteps
    /\ steps' = steps + 1
    /\ UNCHANGED <<nonces, codeSizes, created>>
    /\ IF ~input.wellFormed
       THEN /\ UNCHANGED <<state, balances>>
            /\ last' = Result("burnAndRecover", caller, FALSE, 0, input.token, input.amount, NoConfig)
       ELSE LET pool == GetBackingPool(state, input.token)
                recoveredAmount == CalculateBackingForAmount(pool, input.amount)
            IN  /\ state' = SetBackingPool(state, burnedPool(pool, input.amount))
                /\ balances' = burnTransfer(balances, caller, recoveredAmount)
                /\ last' = Result("burnAndRecover", caller, TRUE, U256(recoveredAmount),
                                  input.token, input.amount, NoConfig)

\* getFloorPrice that stores the price it computed in the token's account
getFloorPriceStoresPrice(input) ==
    /\ steps < MaxSteps
    /\ steps' = steps + 1
    /\ UNCHANGED <<balances, nonces, codeSizes, created>>
    /\ IF ~input.wellFormed
       THEN /\ UNCHANGED state
            /\ last' = Result("getFloorPrice", ZeroAddress, FALSE, 0, input.token, 0, NoConfig)
       ELSE LET pool == GetBackingPool(state, input.token)
                floorPrice == CalculateFloorPrice(pool)
            IN  /\ state' = SetState(state, input.token, SlotMod, U256(floorPrice))
                /\ last' = Result("getFloorPrice", ZeroAddress, TRUE, U256(floorPrice),
                                  input.token, 0, NoConfig)

getFloorPrice(input) ==
    /\ steps < MaxSteps
    /\ steps' = steps + 1
    /\ UNCHANGED <<state, balances, nonces, codeSizes, created>>
    /\ IF ~input.wellFormed
       THEN last' = Result("getFloorPrice", ZeroAddress, FALSE, 0, input.token, 0, NoConfig)
       ELSE LET pool == GetBackingPool(state, input.token)
                floorPrice == CalculateFloorPrice(pool)
            IN  last' = Result("getFloorPrice", ZeroAddress, TRUE, U256(floorPrice),
                               input.token, 0, NoConfig)

\* Run on an input for which every rejection wrote a marker slot first
RunUnknownWritesFirst(kind) ==
    /\ steps < MaxSteps
    /\ steps' = steps + 1
    /\ state' = SetState(state, PrecompileAddressBytes, 0, steps + 1)
    /\ UNCHANGED <<balances, nonces, codeSizes, created>>
    /\ last' = Result(kind, ZeroAddress, FALSE, 0, NonExistentToken, 0, NoConfig)

\* Run on an input shorter than a selector, or with a selector of no method
RunUnknown(kind) ==
    /\ steps < MaxSteps
    /\ steps' = steps + 1
    /\ UNCHANGED <<state, balances, nonces, codeSizes, created>>
    /\ last' = Result(kind, ZeroAddress, FALSE, 0, NonExistentToken, 0, NoConfig)

-----------------------------------------------------------------------------
(* the host: account nonces and deployed code *)

SetNonce(addr, nonce) ==
    /\ steps < MaxSteps
    /\ steps' = steps + 1
    /\ nonce <= MaxNonce
    /\ nonces' = [nonces EXCEPT ![addr] = nonce]
    /\ UNCHANGED <<state, balances, codeSizes, last, created>>

SetCodeSize(addr, size) ==
    /\ steps < MaxSteps
    /\ steps' = steps + 1
    /\ codeSizes[addr] = 0
    /\ codeSizes' = [codeSizes EXCEPT ![addr] = size]
    /\ UNCHANGED <<state, balances, nonces, last, created>>

\* the address at which the host deploys code
CodeTargets == {tokenAddressOf(Alice, 0, Config(<<1>>, <<>>, 2, SmartCoin, 0, ZeroFees, FALSE))}

-----------------------------------------------------------------------------

InitialBalance == [a \in Accounts |-> IF a = Alice THEN 3 ELSE 0]

Init ==
    /\ state = <<>>
    /\ balances = InitialBalance
    /\ nonces = [a \in Callers |-> 0]
    /\ codeSizes = [t \in TokenAddresses |-> 0]
    /\ last = [op |-> "none", caller |-> ZeroAddress, ok |-> FALSE, ret |-> 0,
               token |-> NonExistentToken, amount |-> 0, config |-> NoConfig, step |-> 0]
    /\ created = {}
    /\ steps = 0

Next ==
    \/ \E input \in CreateInputs, caller \in Creators : createAssetBackedToken(input, caller)
    \/ \E input \in CallInputs(state) : getBacking(input)
    \/ \E input \in CallInputs(state), caller \in Burners : burnAndRecover(input, caller)
    \/ \E input \in FloorInputs(state) : getFloorPrice(input)
    \/ \E kind \in {"short", "unknown"} : RunUnknown(kind)
    \/ SetNonce(Alice, nonces[Alice] + 1)
    \/ \E addr \in CodeTargets : SetCodeSize(addr, 1)

Spec == Init /\ [][Next]_vars

-----------------------------------------------------------------------------
(* The vm variant of the precompile: Run passes the zero address as the caller *)
(* of create and burnAndRecover, and create checks neither the caller nor its *)
(* balance.  The other operations are those of the standalone variant.        *)

\* createAssetBackedToken of the vm variant: the checks that revert
createRevertsVM(input, caller, ns, cs) ==
    IF ~input.wellFormed THEN TRUE
    ELSE IF ~validateTokenConfig(input) THEN TRUE
    ELSE IF input.BackingAsset # SmartCoin THEN TRUE
    ELSE cs[tokenAddressOf(caller, ns[caller], input)] > 0

createAssetBackedTokenVM(input) ==
    LET caller == ZeroAddress IN
    /\ steps < MaxSteps
    /\ steps' = steps + 1
    /\ UNCHANGED <<nonces, codeSizes>>
    /\ IF createRevertsVM(input, caller, nonces, codeSizes)
       THEN /\ UNCHANGED <<state, balances, created>>
            /\ last' = Result("create", caller, FALSE, 0, NonExistentToken, 0, input)
       ELSE LET tokenAddress == tokenAddressOf(caller, nonces[caller], input) IN
            /\ state' = createStorage(state, tokenAddress, input)
            /\ balances' = createTransfer(balances, caller, input)
            /\ created' = created \cup {tokenAddress}
            /\ last' = Result("create", caller, TRUE, 0, tokenAddress, 0, input)

\* every token address a create of the vm variant can derive
TokenAddressesVM ==
    {tokenAddressOf(ZeroAddress, n, cfg) : n \in 0..MaxNonce,
                                           cfg \in CreateInputs \ {MalformedCreate}}

CodeTargetsVM == {tokenAddressOf(ZeroAddress, 0, Config(<<1>>, <<>>, 2, SmartCoin, 0, ZeroFees, FALSE))}

InitVM ==
    /\ state = <<>>
    /\ balances = InitialBalance
    /\ nonces = [a \in Callers |-> 0]
    /\ codeSizes = [t \in TokenAddressesVM |-> 0]
    /\ last = [op |-> "none", caller |-> ZeroAddress, ok |-> FALSE, ret |-> 0,
               token |-> NonExistentToken, amount |-> 0, config |-> NoConfig, step |-> 0]
    /\ created = {}
    /\ steps = 0

NextVM ==
    \/ \E input \in CreateInputs : createAssetBackedTokenVM(input)
    \/ \E input \in CallInputs(state) : getBacking(input)
    \/ \E input \in CallInputs(state) : burnAndRecover(input, ZeroAddress)
    \/ \E input \in FloorInputs(state) : getFloorPrice(input)
    \/ \E kind \in {"short", "unknown"} : RunUnknown(kind)
    \/ SetNonce(ZeroAddress, nonces[ZeroAddress] + 1)
    \/ \E addr \in CodeTargetsVM : SetCodeSize(addr, 1)

SpecVM == InitVM /\ [][NextVM]_vars

-----------------------------------------------------------------------------
(* The backing arithmetic on its own: a pool is read from storage, as every  *)
(* caller of CalculateFloorPrice and CalculateBackingForAmount does, and the *)
(* function is applied to it.  last.ret holds the big.Int it returned.       *)

MaxCalcSteps == 1   \* applications per behaviour

CalcToken == <<85>>
CalcBackings == {0, 1, 2, 3, WordMod - 1}
CalcSupplies == {0, 1, 2, 3, WordMod - 1}
CalcBurned == {0, 1, 2, 3, 4}
CalcAmounts == {0, 1, 2, 3, WordMod - 1}

CalcPools ==
    {[TokenAddress |-> CalcToken, BackingAsset |-> SmartCoin, TotalBacking |-> tb,
      TotalSupply |-> ts, BurnedSupply |-> bs] :
        tb \in CalcBackings, ts \in CalcSupplies, bs \in CalcBurned}

InitCalc ==
    /\ \E pool \in CalcPools : state = SetBackingPool(<<>>, pool)
    /\ balances = InitialBalance
    /\ nonces = [a \in Callers |-> 0]
    /\ codeSizes = [t \in TokenAddresses |-> 0]
    /\ last = [op |-> "none", caller |-> ZeroAddress, ok |-> FALSE, ret |-> 0,
               token |-> CalcToken, amount |-> 0, config |-> NoConfig, step |-> 0]
    /\ created = {}
    /\ steps = 0

CalcFloorPrice ==
    /\ steps < MaxCalcSteps
    /\ steps' = steps + 1
    /\ UNCHANGED <<state, balances, nonces, codeSizes, created>>
    /\ last' = Result("CalculateFloorPrice", ZeroAddress, TRUE,
                      CalculateFloorPrice(GetBackingPool(state, CalcToken)),
                      CalcToken, 0, NoConfig)

CalcBackingForAmount(amount) ==
    /\ steps < MaxCalcSteps
    /\ steps' = steps + 1
    /\ UNCHANGED <<state, balances, nonces, codeSizes, created>>
    /\ last' = Result("CalculateBackingForAmount", ZeroAddress, TRUE,
                      CalculateBackingForAmount(GetBackingPool(state, CalcToken), amount),
                      CalcToken, amount, NoConfig)

NextCalc ==
    \/ CalcFloorPrice
    \/ \E amount \in CalcAmounts : CalcBackingForAmount(amount)

SpecCalc == InitCalc /\ [][NextCalc]_vars

-----------------------------------------------------------------------------
(* validateTokenConfig on its own: Init draws the config, the action applies *)
(* the function and records whether it returned nil.                         *)

\* the totals one side of the fee table is given
SideFees == {0, 500, 501, WordMod - 1}

\* a fee table whose buy side sums to buy and whose sell side sums to sell,
\* each spread over the first and the last index of its side
MakeFees(buy, sell) ==
    [i \in Fees12 |->
        IF i = 0 THEN buy \div 2
        ELSE IF i = 5 THEN buy - (buy \div 2)
        ELSE IF i = 6 THEN sell \div 2
        ELSE IF i = 11 THEN sell - (sell \div 2)
        ELSE 0]

ValidateInputs ==
    {Config(<<1>>, <<1>>, ts, SmartCoin, ib, MakeFees(buy, sell), FALSE) :
        ts \in {-1, 0, 1}, ib \in {-1, 0, 1}, buy \in SideFees, sell \in SideFees}

InitValidate ==
    /\ state = <<>>
    /\ balances = InitialBalance
    /\ nonces = [a \in Callers |-> 0]
    /\ codeSizes = [t \in TokenAddresses |-> 0]
    /\ \E config \in ValidateInputs :
          last = [op |-> "none", caller |-> ZeroAddress, ok |-> FALSE, ret |-> 0,
                  token |-> NonExistentToken, amount |-> 0, config |-> config,
                  step |-> 0]
    /\ created = {}
    /\ steps = 0

ApplyValidate ==
    /\ steps < MaxCalcSteps
    /\ steps' = steps + 1
    /\ UNCHANGED <<state, balances, nonces, codeSizes, created>>
    /\ last' = Result("validateTokenConfig", ZeroAddress, validateTokenConfig(last.config),
                      0, NonExistentToken, 0, last.config)

NextValidate == ApplyValidate

SpecValidate == InitValidate /\ [][NextValidate]_vars

-----------------------------------------------------------------------------
(* RequiredGas on its own: Init draws the input bytes, the action applies    *)
(* the function and records the gas it returned.                             *)

\* gas costs
GasCreateToken == 100000
GasGetBacking == 5000
GasBurnAndRecover == 30000
GasPerByte == 200

\* longest payload, in bytes, that follows the selector
MaxPayload == 20

\* the four method selectors (stand-ins for the first 4 bytes of the Keccak256
\* of each signature, pairwise distinct) and two inputs that match none
MethodIDCreateToken == <<1, 1, 1, 1>>
MethodIDGetBacking == <<2, 2, 2, 2>>
MethodIDBurnAndRecover == <<3, 3, 3, 3>>
MethodIDGetFloorPrice == <<4, 4, 4, 4>>
UnknownMethodIDs == {<<255, 255, 255, 255>>, <<1, 1, 1, 2>>}
MethodIDs ==
    {MethodIDCreateToken, MethodIDGetBacking, MethodIDBurnAndRecover,
     MethodIDGetFloorPrice} \cup UnknownMethodIDs

Zeros(n) == [i \in 1..n |-> 0]

\* inputs shorter than 4 bytes, and every selector followed by 0..MaxPayload bytes
GasInputs ==
    {SubSeq(id, 1, k) : id \in MethodIDs, k \in 0..3}
        \cup {id \o Zeros(n) : id \in MethodIDs, n \in 0..MaxPayload}

\* RequiredGas charging the selector bytes of a create as data
RequiredGasCountsSelector(input) ==
    IF Len(input) < 4 THEN 0
    ELSE LET methodID == SubSeq(input, 1, 4)
         IN  IF methodID = MethodIDCreateToken
                THEN GasCreateToken + Len(input) * GasPerByte
             ELSE IF methodID = MethodIDGetBacking THEN GasGetBacking
             ELSE IF methodID = MethodIDBurnAndRecover THEN GasBurnAndRecover
             ELSE IF methodID = MethodIDGetFloorPrice THEN GasGetBacking
             ELSE 0

\* the uint64 result cannot wrap: len(input) is far below 2^64 / 200
RequiredGas(input) ==
    IF Len(input) < 4 THEN 0
    ELSE LET methodID == SubSeq(input, 1, 4)
         IN  IF methodID = MethodIDCreateToken
                THEN GasCreateToken + (Len(input) - 4) * GasPerByte
             ELSE IF methodID = MethodIDGetBacking THEN GasGetBacking
             ELSE IF methodID = MethodIDBurnAndRecover THEN GasBurnAndRecover
             ELSE IF methodID = MethodIDGetFloorPrice THEN GasGetBacking
             ELSE 0

InitGas ==
    /\ state = <<>>
    /\ balances = InitialBalance
    /\ nonces = [a \in Callers |-> 0]
    /\ codeSizes = [t \in TokenAddresses |-> 0]
    /\ \E input \in GasInputs :
          last = [op |-> "none", input |-> input, ret |-> 0, step |-> 0]
    /\ created = {}
    /\ steps = 0

ApplyRequiredGas ==
    /\ steps < MaxCalcSteps
    /\ steps' = steps + 1
    /\ UNCHANGED <<state, balances, nonces, codeSizes, created>>
    /\ last' = [op |-> "RequiredGas", input |-> last.input,
                ret |-> RequiredGas(last.input), step |-> steps + 1]

NextGas == ApplyRequiredGas

SpecGas == InitGas /\ [][NextGas]_vars

-----------------------------------------------------------------------------
(* The inputs Run rejects before it dispatches: too short, no known selector, *)
(* and any input on a Precompile whose stateDB field is nil.  The host's      *)
(* state is populated by creates so that a write would be seen.               *)

\* Run of a Precompile built without a StateDB: rejected before the input is read
RunNoStateDB(input) ==
    /\ steps < MaxSteps
    /\ steps' = steps + 1
    /\ UNCHANGED <<state, balances, nonces, codeSizes, created>>
    /\ last' = [input |-> input]
                 @@ Result("noStateDB", ZeroAddress, FALSE, 0, NonExistentToken, 0, NoConfig)

\* the creates that populate the state
GuardCreates == {Config(<<1>>, <<>>, 2, SmartCoin, ib, ZeroFees, FALSE) : ib \in Backings}

InitGuard == Init

NextGuard ==
    \/ \E input \in GuardCreates : createAssetBackedToken(input, Alice)
    \/ \E kind \in {"short", "unknown"} : RunUnknown(kind)
    \/ \E input \in GasInputs : RunNoStateDB(input)

SpecGuard == InitGuard /\ [][NextGuard]_vars

-----------------------------------------------------------------------------
(* The pool store on its own: SetBackingPool and GetBackingPool applied to    *)
(* pools and token addresses drawn from small sets, on a storage that is      *)
(* empty or already holds a pool.                                             *)

MaxStoreSteps == 2   \* applications per behaviour

\* a token address whose pool slots and fee slots share a slot base
SharedBaseToken == <<17, 1, 1, 2>>

StoreTokens == {CalcToken, NonExistentToken, SharedBaseToken}

\* pools whose fields lie in [0, 2^256) and whose backing asset is an address
StorePools ==
    {[TokenAddress |-> t, BackingAsset |-> ba, TotalBacking |-> tb,
      TotalSupply |-> ts, BurnedSupply |-> bs] :
        t \in StoreTokens, ba \in {SmartCoin, AddrMod - 1},
        tb \in {0, WordMod - 1}, ts \in {2, WordMod - 1}, bs \in {0, 1}}

\* a pool with no zero field
PriorPool ==
    [TokenAddress |-> CalcToken, BackingAsset |-> OtherAsset, TotalBacking |-> 3,
     TotalSupply |-> 3, BurnedSupply |-> 3]

InitStore ==
    /\ state \in {<<>>, SetBackingPool(<<>>, PriorPool)}
    /\ balances = InitialBalance
    /\ nonces = [a \in Callers |-> 0]
    /\ codeSizes = [t \in TokenAddresses |-> 0]
    /\ last = [op |-> "none", step |-> 0]
    /\ created = {}
    /\ steps = 0

StorePool(pool) ==
    /\ steps < MaxStoreSteps
    /\ steps' = steps + 1
    /\ state' = SetBackingPool(state, pool)
    /\ UNCHANGED <<balances, nonces, codeSizes, created>>
    /\ last' = [op |-> "SetBackingPool", pool |-> pool, step |-> steps + 1]

ReadPool(tokenAddress) ==
    /\ steps < MaxStoreSteps
    /\ steps' = steps + 1
    /\ UNCHANGED <<state, balances, nonces, codeSizes, created>>
    /\ last' = [op |-> "GetBackingPool", token |-> tokenAddress,
                pool |-> GetBackingPool(state, tokenAddress), step |-> steps + 1]

NextStore ==
    \/ \E pool \in StorePools : StorePool(pool)
    \/ \E tokenAddress \in StoreTokens : ReadPool(tokenAddress)

SpecStore == InitStore /\ [][NextStore]_vars

-----------------------------------------------------------------------------
(* burnAndRecover on its own: Init draws the pool of CalcToken, and every      *)
(* step burns an amount of it for one caller.                                 *)

MaxBurnSteps == 2   \* burns per behaviour

BurnInputs == {[wellFormed |-> TRUE, token |-> CalcToken, amount |-> a] : a \in CalcAmounts}

InitBurn == InitCalc

NextBurn ==
    \E input \in BurnInputs : steps < MaxBurnSteps /\ burnAndRecover(input, Bob)

SpecBurn == InitBurn /\ [][NextBurn]_vars

-----------------------------------------------------------------------------
(* Steps of Run, told from the host's steps by the step number in last *)

RunStep(op) == last'.op = op /\ last'.step = steps' /\ steps' = steps + 1

CreateStep == RunStep("create")
BurnStep == RunStep("burnAndRecover")

\* the pool of a token as persisted in the current state
Pool(t) == GetBackingPool(state, t)

\* the address the create recorded in last derives
DerivedToken == tokenAddressOf(last'.caller, nonces[last'.caller], last'.config)

-----------------------------------------------------------------------------
(* Claims *)

\* C1: in every reachable state every pool persisted by a create has
\* burnedSupply <= totalSupply.
C1_BurnedWithinSupply ==
    \A t \in created : Pool(t).BurnedSupply <= Pool(t).TotalSupply

\* C2: no burnAndRecover redeems more than the pool's current totalBacking;
\* totalBacking stays >= 0 and falls only by the amount computed for the burn.
C2_RedeemsAtMostBacking ==
    [][BurnStep /\ last'.ok =>
        LET pool == Pool(last'.token)
            recoveredAmount == CalculateBackingForAmount(pool, last'.amount)
            after == GetBackingPool(state', last'.token)
        IN  /\ recoveredAmount <= pool.TotalBacking
            /\ after.TotalBacking >= 0
            /\ after.TotalBacking < pool.TotalBacking =>
                   pool.TotalBacking - after.TotalBacking = recoveredAmount]_vars

\* C3: conservation: after every successful burnAndRecover the totalBacking read
\* back equals the totalBacking before minus the backing computed for the amount
\* on the pool before.
C3_Conservation ==
    [][BurnStep /\ last'.ok =>
        GetBackingPool(state', last'.token).TotalBacking =
            Pool(last'.token).TotalBacking
                - CalculateBackingForAmount(Pool(last'.token), last'.amount)]_vars

\* C4: a create whose derived token address already holds a pool is rejected
\* and leaves that pool's totalBacking and burnedSupply as they were.
C4_CreatedOnce ==
    [][CreateStep /\ DerivedToken \in created =>
        /\ ~last'.ok
        /\ GetBackingPool(state', DerivedToken).TotalBacking = Pool(DerivedToken).TotalBacking
        /\ GetBackingPool(state', DerivedToken).BurnedSupply = Pool(DerivedToken).BurnedSupply]_vars

\* C5: no step makes the persisted burnedSupply of a token smaller.
C5_BurnedMonotone ==
    [][\A t \in created :
        GetBackingPool(state', t).BurnedSupply >= Pool(t).BurnedSupply]_vars

\* C6: no step changes the persisted totalSupply of a token once created.
C6_SupplyImmutable ==
    [][\A t \in created :
        GetBackingPool(state', t).TotalSupply = Pool(t).TotalSupply]_vars

\* C7: getBacking and getFloorPrice on a token address for which no pool was
\* ever created are rejected.
C7_QueryUnknownRejected ==
    (last.op \in {"getBacking", "getFloorPrice"} /\ last.token \notin created) => ~last.ok

\* C8: burnAndRecover on a token address for which no pool was ever created is
\* rejected and changes no storage slot and no balance.
C8_BurnUnknownRejected ==
    [][BurnStep /\ last'.token \notin created =>
        /\ ~last'.ok
        /\ \A k \in DOMAIN state' : GetState(state, k[1], k[2]) = state'[k]
        /\ balances' = balances]_vars

\* what "otherwise valid input" of a create is, on the state before the call
OtherwiseValid(caller, config) ==
    /\ caller # ZeroAddress
    /\ config.wellFormed
    /\ config.TotalSupply > 0
    /\ SumFees(config.Fees, 0, 6) <= MaxFeeTotal
    /\ SumFees(config.Fees, 6, 6) <= MaxFeeTotal
    /\ balances[caller] >= config.InitialBacking
    /\ codeSizes[tokenAddressOf(caller, nonces[caller], config)] = 0

\* C9: a create with a non-zero backingAsset is always rejected; with the zero
\* backingAsset and otherwise valid input it succeeds.
C9_SmartCoinOnly ==
    [][CreateStep =>
        /\ last'.config.BackingAsset # SmartCoin => ~last'.ok
        /\ (last'.config.BackingAsset = SmartCoin
              /\ OtherwiseValid(last'.caller, last'.config)) => last'.ok]_vars

\* C9 witness: after a create that succeeded, a create by a funded caller of a
\* valid config that names another backing asset has been rejected.
C9_Witness ==
    /\ created # {}
    /\ last.op = "create" /\ ~last.ok
    /\ last.config.BackingAsset # SmartCoin
    /\ last.caller # ZeroAddress
    /\ last.config.wellFormed
    /\ validateTokenConfig(last.config)
    /\ balances[last.caller] >= last.config.InitialBacking
    /\ codeSizes[tokenAddressOf(last.caller, nonces[last.caller], last.config)] = 0

\* C10: every successful create lowers the caller's balance by initialBacking,
\* raises the custodial balance by initialBacking and changes no other balance.
C10_CreateMovesInitialBacking ==
    [][CreateStep /\ last'.ok =>
        balances' = [a \in Accounts |->
            IF a = last'.caller THEN balances[a] - last'.config.InitialBacking
            ELSE IF a = PrecompileAddressBytes
                 THEN balances[a] + last'.config.InitialBacking
            ELSE balances[a]]]_vars

\* C10 witness: a create that locked a positive initial backing has succeeded
\* and the custodial balance holds it.
C10_Witness ==
    /\ last.op = "create" /\ last.ok
    /\ last.config.InitialBacking > 0
    /\ balances[PrecompileAddressBytes] >= last.config.InitialBacking

\* C11: after every successful createAssetBackedToken, GetBackingPool on the
\* returned token address yields totalBacking = initialBacking, totalSupply =
\* config.totalSupply, burnedSupply = 0 and the zero backingAsset.
C11_CreatePersistsPool ==
    [][CreateStep /\ last'.ok =>
        LET pool == GetBackingPool(state', last'.token) IN
        /\ pool.TotalBacking = last'.config.InitialBacking
        /\ pool.TotalSupply = last'.config.TotalSupply
        /\ pool.BurnedSupply = 0
        /\ pool.BackingAsset = SmartCoin]_vars

\* C12: a create whose caller holds less than a positive initialBacking is
\* rejected and changes no storage slot and no balance; no create takes a
\* caller's balance below zero.
C12_InsufficientBalanceRejected ==
    [][CreateStep =>
        /\ (last'.config.InitialBacking > 0
              /\ balances[last'.caller] < last'.config.InitialBacking) =>
               (~last'.ok /\ state' = state /\ balances' = balances)
        /\ balances[last'.caller] >= 0 => balances'[last'.caller] >= 0]_vars

\* a step of Run, whatever the operation
AnyRunStep == last'.step = steps' /\ steps' = steps + 1

\* C13: every rejected call to Run leaves every storage slot and every balance
\* as it was before the call.
C13_RejectedChangesNothing ==
    [][AnyRunStep /\ ~last'.ok => state' = state /\ balances' = balances]_vars

\* C13 witness: with a pool in storage and coin in custody, a create or a
\* burnAndRecover has just been rejected.
C13_Witness ==
    /\ created # {}
    /\ balances[PrecompileAddressBytes] > 0
    /\ last.step = steps
    /\ last.op \in {"create", "burnAndRecover"}
    /\ ~last.ok

\* C14: every successful burnAndRecover(token, amount) raises the token's
\* persisted burnedSupply by exactly amount, lowers the custodial balance by the
\* returned recovered amount and raises the caller's balance by the same amount.
C14_BurnMovesRecovered ==
    [][BurnStep /\ last'.ok =>
        /\ GetBackingPool(state', last'.token).BurnedSupply
               = Pool(last'.token).BurnedSupply + last'.amount
        /\ balances'[PrecompileAddressBytes]
               = balances[PrecompileAddressBytes] - last'.ret
        /\ balances'[last'.caller] = balances[last'.caller] + last'.ret]_vars

\* the pool the arithmetic was applied to
CalcPool == GetBackingPool(state, CalcToken)

\* the circulating supply of a pool
Circulating(p) == p.TotalSupply - p.BurnedSupply

\* C15: CalculateFloorPrice and CalculateBackingForAmount return 0 whenever
\* totalSupply = 0 or totalSupply - burnedSupply = 0, whatever totalBacking and
\* amount are.
C15_ZeroSupplySafety ==
    (/\ last.op \in {"CalculateFloorPrice", "CalculateBackingForAmount"}
     /\ (CalcPool.TotalSupply = 0 \/ Circulating(CalcPool) = 0))
        => last.ret = 0

\* C15 witness: CalculateBackingForAmount was applied with a positive amount to
\* a pool with backing whose supply is all burned.
C15_Witness ==
    /\ last.op = "CalculateBackingForAmount"
    /\ last.amount > 0
    /\ CalcPool.TotalBacking > 0
    /\ CalcPool.TotalSupply > 0
    /\ Circulating(CalcPool) = 0
    /\ last.ret = 0

\* C16: of two pools that differ only in totalBacking, the one with the larger
\* totalBacking never has the smaller CalculateFloorPrice.
C16_FloorPriceMonotoneInBacking ==
    last.op = "CalculateFloorPrice" =>
        \A tb \in CalcBackings :
            tb >= CalcPool.TotalBacking =>
                CalculateFloorPrice([CalcPool EXCEPT !.TotalBacking = tb]) >= last.ret

\* C17 as stated: of two pools that differ only in burnedSupply, both within
\* 0..totalSupply, the one with the larger burnedSupply never has the smaller
\* CalculateFloorPrice.
C17_FloorPriceMonotoneInBurned_Stated ==
    (last.op = "CalculateFloorPrice" /\ CalcPool.BurnedSupply <= CalcPool.TotalSupply) =>
        \A bs \in CalcBurned :
            (bs >= CalcPool.BurnedSupply /\ bs <= CalcPool.TotalSupply) =>
                CalculateFloorPrice([CalcPool EXCEPT !.BurnedSupply = bs]) >= last.ret

\* C17 amended: the same with both burned supplies strictly below totalSupply,
\* that is, while some supply circulates.
C17_FloorPriceMonotoneInBurned ==
    (last.op = "CalculateFloorPrice" /\ CalcPool.BurnedSupply < CalcPool.TotalSupply) =>
        \A bs \in CalcBurned :
            (bs >= CalcPool.BurnedSupply /\ bs < CalcPool.TotalSupply) =>
                CalculateFloorPrice([CalcPool EXCEPT !.BurnedSupply = bs]) >= last.ret

\* C17 witness: the floor price was taken of a pool with backing for which a
\* larger burned supply, still below totalSupply, gives a higher price.
C17_Witness ==
    /\ last.op = "CalculateFloorPrice"
    /\ last.ret > 0
    /\ \E bs \in CalcBurned :
          /\ bs > CalcPool.BurnedSupply
          /\ bs < CalcPool.TotalSupply
          /\ CalculateFloorPrice([CalcPool EXCEPT !.BurnedSupply = bs]) > last.ret

\* C18: for a pool with totalSupply > 0 and circulating supply > 0,
\* CalculateFloorPrice is the floor of totalBacking * Scale / circulating supply:
\* the largest integer whose product with the circulating supply does not exceed
\* totalBacking * Scale.
C18_FloorPriceIsFloor ==
    (/\ last.op = "CalculateFloorPrice"
     /\ CalcPool.TotalSupply > 0
     /\ Circulating(CalcPool) > 0)
        => /\ last.ret * Circulating(CalcPool) <= CalcPool.TotalBacking * Scale
           /\ (last.ret + 1) * Circulating(CalcPool) > CalcPool.TotalBacking * Scale

\* C18 witness: the floor price was taken of a pool whose scaled backing is not
\* a multiple of its circulating supply, so the quotient was truncated.
C18_Witness ==
    /\ last.op = "CalculateFloorPrice"
    /\ CalcPool.TotalSupply > 0
    /\ Circulating(CalcPool) > 1
    /\ (CalcPool.TotalBacking * Scale) % Circulating(CalcPool) # 0
    /\ last.ret > 0

\* C19: for a pool with circulating supply > 0 and every amount of the word
\* range, CalculateBackingForAmount is the floor of amount * totalBacking /
\* circulating supply taken on the whole product, also where the product is
\* larger than a storage word.
C19_BackingForAmountFullWidth ==
    (/\ last.op = "CalculateBackingForAmount"
     /\ Circulating(CalcPool) > 0)
        => /\ last.ret * Circulating(CalcPool) <= last.amount * CalcPool.TotalBacking
           /\ (last.ret + 1) * Circulating(CalcPool) > last.amount * CalcPool.TotalBacking

\* C19 witness: the backing was computed for an amount whose product with
\* totalBacking does not fit a storage word, and the quotient does not either.
C19_Witness ==
    /\ last.op = "CalculateBackingForAmount"
    /\ Circulating(CalcPool) > 1
    /\ last.amount * CalcPool.TotalBacking >= WordMod
    /\ last.ret >= WordMod

GetBackingStep == RunStep("getBacking")

\* C20: for amount 0 CalculateBackingForAmount is 0 on every persisted pool and
\* getBacking on a created token returns it without error; burnAndRecover(token,
\* 0) on a created token succeeds, returns 0 and leaves the pool record and
\* every balance as they were.
C20_ZeroAmount ==
    [][/\ \A t \in Written(state) \cup {NonExistentToken} :
              CalculateBackingForAmount(Pool(t), 0) = 0
       /\ (GetBackingStep /\ last'.amount = 0 /\ last'.token \in created) =>
              (last'.ok /\ last'.ret = 0)
       /\ (BurnStep /\ last'.amount = 0 /\ last'.token \in created) =>
              /\ last'.ok
              /\ last'.ret = 0
              /\ GetBackingPool(state', last'.token) = Pool(last'.token)
              /\ balances' = balances]_vars

\* C20 witness: a burnAndRecover of amount 0 has just succeeded on a created
\* token whose pool holds backing.
C20_Witness ==
    /\ last.op = "burnAndRecover"
    /\ last.step = steps
    /\ last.ok
    /\ last.amount = 0
    /\ last.token \in created
    /\ Pool(last.token).TotalBacking > 0
    /\ Pool(last.token).TotalSupply > 0

\* the sum of the six fees of a side, written out
BuySide(config) ==
    config.Fees[0] + config.Fees[1] + config.Fees[2]
        + config.Fees[3] + config.Fees[4] + config.Fees[5]
SellSide(config) ==
    config.Fees[6] + config.Fees[7] + config.Fees[8]
        + config.Fees[9] + config.Fees[10] + config.Fees[11]

C22_ZeroCallerRejected ==
    [][CreateStep /\ last'.caller = ZeroAddress =>
        ~last'.ok /\ state' = state /\ balances' = balances]_vars

\* C23: RequiredGas is 100000 + 200 * (len(input) - 4) for a create input,
\* 5000 for getBacking, 30000 for burnAndRecover, 5000 for getFloorPrice, and
\* 0 for an input shorter than 4 bytes or with an unknown selector; only the
\* create cost depends on the length of the input.
C23_RequiredGas ==
    last.op = "RequiredGas" =>
        LET n == Len(last.input)
            selector == IF n >= 4 THEN SubSeq(last.input, 1, 4) ELSE <<>>
        IN  /\ n < 4 => last.ret = 0
            /\ selector = MethodIDCreateToken => last.ret = 100000 + 200 * (n - 4)
            /\ selector = MethodIDGetBacking => last.ret = 5000
            /\ selector = MethodIDBurnAndRecover => last.ret = 30000
            /\ selector = MethodIDGetFloorPrice => last.ret = 5000
            /\ selector \in UnknownMethodIDs => last.ret = 0

\* C23 witness: RequiredGas has priced a create input with a payload of
\* MaxPayload bytes above the base cost.
C23_Witness ==
    /\ last.op = "RequiredGas"
    /\ Len(last.input) = 4 + MaxPayload
    /\ SubSeq(last.input, 1, 4) = MethodIDCreateToken
    /\ last.ret = GasCreateToken + MaxPayload * GasPerByte
    /\ last.ret > GasCreateToken

\* C24: Run rejects every input shorter than 4 bytes, every input with an
\* unknown selector, and every input when no StateDB has been set, and leaves
\* every storage slot, balance, nonce and code size as it was.
C24_RejectedBeforeDispatch ==
    [][AnyRunStep /\ last'.op \in {"short", "unknown", "noStateDB"} =>
        /\ ~last'.ok
        /\ state' = state /\ balances' = balances
        /\ nonces' = nonces /\ codeSizes' = codeSizes]_vars

\* C24 witness: with a pool in storage, a Precompile without a StateDB has
\* rejected an input that carries the create selector.
C24_Witness ==
    /\ last.op = "noStateDB"
    /\ ~last.ok
    /\ Len(last.input) > 4
    /\ SubSeq(last.input, 1, 4) = MethodIDCreateToken
    /\ state # <<>>

\* C25: GetBackingPool on a token address nothing was ever written at returns
\* a record (never an absent one) for that address whose totalBacking,
\* totalSupply and burnedSupply are 0 and whose backingAsset is the zero address.
C25_UnwrittenReadsZeroPool ==
    (last.op = "GetBackingPool" /\ last.token \notin Written(state)) =>
        last.pool = [TokenAddress |-> last.token, BackingAsset |-> 0,
                     TotalBacking |-> 0, TotalSupply |-> 0, BurnedSupply |-> 0]

\* C25 witness: with a pool stored at another address, GetBackingPool has been
\* applied to an address nothing was written at.
C25_Witness ==
    /\ last.op = "GetBackingPool"
    /\ last.token \notin Written(state)
    /\ Written(state) # {}
    /\ last.pool.TotalSupply = 0

\* C29: for a pool whose totalBacking, totalSupply and burnedSupply lie in
\* [0, 2^256) and whose backingAsset is any address, GetBackingPool right after
\* SetBackingPool returns the same four fields.
C29_StoreRoundTrip ==
    last.op = "SetBackingPool" =>
        LET read == GetBackingPool(state, last.pool.TokenAddress)
        IN  /\ read.TotalBacking = last.pool.TotalBacking
            /\ read.TotalSupply = last.pool.TotalSupply
            /\ read.BurnedSupply = last.pool.BurnedSupply
            /\ read.BackingAsset = last.pool.BackingAsset

\* C29 witness: a pool with the largest backing, the largest supply, a burned
\* supply and the largest backing-asset address has been stored in the second
\* step of a behaviour.
C29_Witness ==
    /\ last.op = "SetBackingPool"
    /\ last.step = 2
    /\ last.pool.TokenAddress = CalcToken
    /\ last.pool.TotalBacking = WordMod - 1
    /\ last.pool.TotalSupply = WordMod - 1
    /\ last.pool.BurnedSupply = 1
    /\ last.pool.BackingAsset = AddrMod - 1

\* C26: burnAndRecover on a token T (through SetBackingPool) writes only the
\* four slots slotBase(T) + {0, 1, 2, 3} of T's own account; every other slot
\* of T and every slot of every other account is as it was before the call.
C26_BurnWritesOwnPoolSlots ==
    [][BurnStep =>
        LET T == last'.token
            poolSlots == {getSlotBase(T) + i : i \in 0..3}
        IN  \A k \in DOMAIN state \cup DOMAIN state' :
               (k[1] # T \/ k[2] \notin poolSlots) =>
                   /\ k \in DOMAIN state
                   /\ k \in DOMAIN state'
                   /\ state'[k] = state[k]]_vars

\* C26 witness: with the pools of two tokens in storage, a positive amount of
\* one of them has been burned.
C26_Witness ==
    /\ last.op = "burnAndRecover"
    /\ last.ok
    /\ last.step = steps
    /\ last.amount > 0
    /\ last.token \in created
    /\ Cardinality(Written(state)) >= 2

\* C27: the token address a create derives is a function of the creator, the
\* creator's nonce, the name, the symbol and the total supply alone: it is the
\* address derived from any config that agrees on name, symbol and total
\* supply, in whatever state the create ran.
C27_AddressDependsOnFiveInputs ==
    (last.op = "create" /\ last.ok /\ last.step = steps) =>
        \A config \in CreateInputs \ {MalformedCreate} :
            (/\ config.Name = last.config.Name
             /\ config.Symbol = last.config.Symbol
             /\ config.TotalSupply = last.config.TotalSupply) =>
                tokenAddressOf(last.caller, nonces[last.caller], config) = last.token

\* C27 witness: after a create that moved a backing of 2 into custody, a
\* second create with no backing has derived the address of the same token.
C27_Witness ==
    /\ last.op = "create"
    /\ last.ok
    /\ last.step = steps
    /\ steps = 2
    /\ last.config.InitialBacking = 0
    /\ balances[PrecompileAddressBytes] = 2
    /\ created = {last.token}

\* floor(x / y) for a divisor that is not 0
Floor(x, y) == IF y > 0 THEN x \div y ELSE (-x) \div (-y)

\* C28: a burnAndRecover that decodes returns, and transfers to the caller,
\* floor(amount * totalBacking / (totalSupply - burnedSupply)) evaluated on the
\* pool as it was before the call, wherever that quotient is defined.
C28_RecoveredOnPreBurnPool ==
    [][(BurnStep /\ last'.ok) =>
        LET pool == Pool(last'.token)
            circulating == pool.TotalSupply - pool.BurnedSupply
            recovered == Floor(last'.amount * pool.TotalBacking, circulating)
        IN  circulating # 0 =>
               /\ last'.ret = recovered
               /\ balances'[last'.caller] - balances[last'.caller] = recovered]_vars

\* C30: getBacking and getFloorPrice change no storage slot, no balance, no
\* nonce and no code size, whether they return a value or are rejected.
C30_QueriesReadOnly ==
    [][(AnyRunStep /\ last'.op \in {"getBacking", "getFloorPrice"}) =>
        /\ state' = state /\ balances' = balances
        /\ nonces' = nonces /\ codeSizes' = codeSizes]_vars

\* C30 witness: getFloorPrice has returned a positive price for a created token.
C30_Witness ==
    /\ last.op = "getFloorPrice"
    /\ last.ok
    /\ last.step = steps
    /\ last.token \in created
    /\ last.ret > 0

\* the sum of totalBacking over the pools of a set of token accounts
RECURSIVE SumBacking(_)
SumBacking(tokens) ==
    IF tokens = {} THEN 0
    ELSE LET t == CHOOSE x \in tokens : TRUE
         IN  Pool(t).TotalBacking + SumBacking(tokens \ {t})

\* C31: solvency: in every reachable state the custodial balance of the
\* precompile is at least the sum of totalBacking over all pools in storage.
C31_Solvency ==
    balances[PrecompileAddressBytes] >= SumBacking(Written(state))

\* the sum of the native-coin balances of a set of accounts
RECURSIVE SumBalances(_, _)
SumBalances(bal, accounts) ==
    IF accounts = {} THEN 0
    ELSE LET a == CHOOSE x \in accounts : TRUE
         IN  bal[a] + SumBalances(bal, accounts \ {a})

\* C32: native-coin conservation: no call to Run changes the sum of the
\* balances over all accounts, so in every reachable state that sum is the sum
\* the accounts started with.
C32_CoinConserved ==
    SumBalances(balances, DOMAIN balances) = SumBalances(InitialBalance, DOMAIN InitialBalance)

\* C32 witness: a create has moved coin into custody and a burn has paid part
\* of it out to an account that started with none.
C32_Witness ==
    /\ last.op = "burnAndRecover"
    /\ last.ok
    /\ last.caller = Bob
    /\ balances[Bob] > 0
    /\ balances[PrecompileAddressBytes] > 0
    /\ balances[Alice] < InitialBalance[Alice]

\* C33: for a pool with circulating supply > 0 and an amount of at most the
\* circulating supply, CalculateBackingForAmount returns at most totalBacking.
C33_BackingForAmountWithinPool ==
    (/\ last.op = "CalculateBackingForAmount"
     /\ Circulating(CalcPool) > 0
     /\ last.amount <= Circulating(CalcPool)) =>
        last.ret <= CalcPool.TotalBacking

\* C33 witness: the function has been applied to the whole circulating supply
\* of a pool with burned tokens and returned the whole backing.
C33_Witness ==
    /\ last.op = "CalculateBackingForAmount"
    /\ CalcPool.BurnedSupply > 0
    /\ Circulating(CalcPool) > 0
    /\ last.amount = Circulating(CalcPool)
    /\ CalcPool.TotalBacking > 1
    /\ last.ret = CalcPool.TotalBacking

\* C34: a burnAndRecover of an amount strictly smaller than the circulating
\* supply never lowers the floor price: CalculateFloorPrice of the pool after
\* the burn is at least CalculateFloorPrice of the pool before it.
C34_BurnKeepsFloorPrice ==
    [][(BurnStep /\ last'.ok /\ last'.amount < Circulating(Pool(last'.token))) =>
        CalculateFloorPrice(GetBackingPool(state', last'.token))
            >= CalculateFloorPrice(Pool(last'.token))]_vars

\* C34 witness: a positive amount below the circulating supply has been burned
\* and, the quotient truncating to 0, the pool kept its whole backing.
C34_Witness ==
    /\ last.op = "burnAndRecover"
    /\ last.ok
    /\ last.amount > 0
    /\ last.ret = 0
    /\ CalcPool.TotalBacking > 0
    /\ CalcPool.BurnedSupply >= last.amount
    /\ Circulating(CalcPool) > 0

\* the pool a burn of last.amount that returned last.ret started from, given
\* the pool it left behind
PoolBeforeLastBurn ==
    [Pool(last.token) EXCEPT !.TotalBacking = @ + last.ret,
                             !.BurnedSupply = @ - last.amount]

\* C35: splitting never gains: when a burn of a1 is followed by a burn of a2
\* of the same token and a1 + a2 is at most the circulating supply the first
\* burn started from, the two burns together recover at most what one burn of
\* a1 + a2 recovers from that starting pool.
C35_SplitNeverGains ==
    [][(/\ last.op = "burnAndRecover" /\ last.ok /\ last.step = steps
        /\ BurnStep /\ last'.ok /\ last'.token = last.token
        /\ PoolBeforeLastBurn.BurnedSupply >= 0
        /\ PoolBeforeLastBurn.TotalBacking < WordMod
        /\ burnedPool(PoolBeforeLastBurn, last.amount) = Pool(last.token)
        /\ CalculateBackingForAmount(PoolBeforeLastBurn, last.amount) = last.ret
        /\ last.amount + last'.amount <= Circulating(PoolBeforeLastBurn)) =>
            last.ret + last'.ret
                <= CalculateBackingForAmount(PoolBeforeLastBurn,
                                             last.amount + last'.amount)]_vars

\* C35 witness: a pool of backing 3 and supply 3 has been burned in two burns
\* of 1 that recovered 1 each.
C35_Witness ==
    /\ last.op = "burnAndRecover"
    /\ steps = 2
    /\ last.amount = 1
    /\ last.ret = 1
    /\ balances[Bob] = 2
    /\ CalcPool.TotalSupply = 3
    /\ CalcPool.BurnedSupply = 2
    /\ CalcPool.TotalBacking = 1

\* C36: in the account of every created token the 13 fee slots
\* feeSlotBase + {0..12} and the 4 pool slots slotBase + {0..3} are disjoint.
C36_FeeSlotsApartFromPoolSlots ==
    \A t \in created :
        {getFeeSlotBase(t) + i : i \in 0..12} \cap {getSlotBase(t) + i : i \in 0..3} = {}

\* C37: for a fixed creator and nonce the hashed byte string is injective in
\* (name, symbol, totalSupply): the address a create derived is not the address
\* of any config that differs from the created one in name, symbol or total
\* supply.
C37_HashInputInjective ==
    (last.op = "create" /\ last.ok /\ last.step = steps) =>
        \A config \in CreateInputs \ {MalformedCreate} :
            (\/ config.Name # last.config.Name
             \/ config.Symbol # last.config.Symbol
             \/ config.TotalSupply # last.config.TotalSupply) =>
                tokenAddressOf(last.caller, nonces[last.caller], config) # last.token

\* C38: for every burnAndRecover that decodes, the burnedSupply and the
\* totalBacking held in storage afterwards are the exact integers
\* burnedSupply + amount and totalBacking - recovered of the pool before: not
\* reduced modulo 2^256 and not a negative value kept as its magnitude.
C38_CountersExact ==
    [][(BurnStep /\ last'.ok) =>
        LET before == Pool(last'.token)
            after == GetBackingPool(state', last'.token)
            recovered == CalculateBackingForAmount(before, last'.amount)
        IN  /\ before.BurnedSupply + last'.amount < WordMod
            /\ after.BurnedSupply = before.BurnedSupply + last'.amount
            /\ before.TotalBacking - recovered >= 0
            /\ after.TotalBacking = before.TotalBacking - recovered]_vars

====
